---- MODULE Spec2Model ----
(***************************************************************************)
(* Control logic of experiments/train_lik.py: main dispatches an SGD phase *)
(* (run_sgd) and an SGLD phase (run_sgld or cyclical run_csgld) on one     *)
(* network; the SGLD phases save posterior samples into the samples        *)
(* directory and evaluate the Bayesian model average over the directory.   *)
(*                                                                         *)
(* Network parameters are abstracted to the index of the optimizer step    *)
(* that produced them (0 = the parameters main starts from), so two        *)
(* parameter values are equal exactly when they come from the same step.   *)
(* What the data decide (test accuracy improving) and what the cyclical    *)
(* scheduler answers (get_last_beta() < beta, should_sample()) are inputs, *)
(* as is the order in which Path.rglob enumerates the sample files.        *)
(***************************************************************************)
EXTENDS Integers, Sequences, FiniteSets, TLC

VARIABLES args, pc, err, frame, e, i, net, steps, files, sgd_model, summary,
          log, saves, last_bma, bma_at, tested, last_step

vars == <<args, pc, err, frame, e, i, net, steps, files, sgd_model, summary,
          log, saves, last_bma, bma_at, tested, last_step>>

\* ---- bounds of the model -------------------------------------------------
MaxEpochs == 1
MaxSgldEpochs == 3
MaxBurnIn == 2
MaxNSamples == 2
MaxCycles == 1
NumBatches == 2
MaxCsgldSaves == 2

\* ---- pure helpers ---------------------------------------------------------
Digits == <<"0", "1", "2", "3", "4", "5", "6", "7", "8", "9">>

\* str(n) of a non-negative integer inside an f-string: its decimal digits
RECURSIVE Str(_)
Str(n) == IF n < 10 THEN <<Digits[n + 1]>>
          ELSE Str(n \div 10) \o <<Digits[(n % 10) + 1]>>

\* f"s_e{e}.pt"
SgldName(ep) == <<"s", "_", "e">> \o Str(ep) \o <<".pt">>

\* the cyclical sample name without the epoch: f"s_m{i}.pt"
CsgldNameNoEpoch(ep, mb) == <<"s">> \o <<"_", "m">> \o Str(mb) \o <<".pt">>

\* f"s_e{e}_m{i}.pt"
CsgldName(ep, mb) == <<"s", "_", "e">> \o Str(ep) \o <<"_", "m">> \o Str(mb) \o <<".pt">>

\* Python's % (the result takes the sign of the divisor), divisor non-zero
PyMod(a, b) == IF b > 0 THEN a % b ELSE 0 - ((0 - a) % (0 - b))

\* sample_int = (epochs - burn_in) // n_samples   (n_samples >= 1)
SampleInt(ep, b, n) == (ep - b) \div n

\* the check with e in place of e + 1 in the burn-in comparison
SampleCheckOffByOne(ep, b, sint) ==
    IF ep > b
    THEN IF sint = 0 THEN "raise"
         ELSE IF PyMod(ep + 1 - b, sint) = 0 THEN "save" ELSE "skip"
    ELSE "skip"

\* the check with its operands swapped: the modulo is evaluated first
SampleCheckModFirst(ep, b, sint) ==
    IF sint = 0 THEN "raise"
    ELSE IF PyMod(ep + 1 - b, sint) = 0 /\ ep + 1 > b THEN "save" ELSE "skip"

\* the check with >= in place of > in the burn-in comparison
SampleCheckGeq(ep, b, sint) ==
    IF ep + 1 >= b
    THEN IF sint = 0 THEN "raise"
         ELSE IF PyMod(ep + 1 - b, sint) = 0 THEN "save" ELSE "skip"
    ELSE "skip"

\* if e + 1 > burn_in and (e + 1 - burn_in) % sample_int == 0:
\* `and` short-circuits; % by zero raises ZeroDivisionError
SampleCheck(ep, b, sint) ==
    IF ep + 1 > b
    THEN IF sint = 0 THEN "raise"
         ELSE IF PyMod(ep + 1 - b, sint) = 0 THEN "save" ELSE "skip"
    ELSE "skip"

\* torch.save(net.state_dict(), path): creates or overwrites the file
Write(fs, name, val) ==
    [n \in (DOMAIN fs) \cup {name} |-> IF n = name THEN val ELSE fs[n]]

\* Path(samples_dir).rglob("*.pt"): the files whose name ends in .pt
Rglob(fs) == {n \in DOMAIN fs : n[Len(n)] = ".pt"}

\* the orders in which rglob may yield a set of paths (unspecified by pathlib)
RECURSIVE Orders(_)
Orders(S) == IF S = {} THEN {<<>>}
             ELSE UNION {{<<x>> \o o : o \in Orders(S \ {x})} : x \in S}

\* for sample_path in ...: net.load_state_dict(torch.load(sample_path))
RECURSIVE LoadSamples(_, _, _)
LoadSamples(n, fs, order) ==
    IF order = <<>> THEN n ELSE LoadSamples(fs[Head(order)], fs, Tail(order))

\* torch.stack(ens_logits) raises RuntimeError on an empty list
StackOutcome(order) == IF order = <<>> THEN "RuntimeError" ELSE "ok"

\* every step taken as sgld.step(), the noise=False argument forgotten
StepNoiseAlways(explore) == TRUE

\* sgld.step(noise=False) in the exploration phase, sgld.step() otherwise
StepNoise(explore) == ~explore

\* the SGD phase guarded by epochs > 0 instead of the truth value of epochs
RunsSgdPositive(ep) == ep > 0

\* if epochs:
RunsSgd(ep) == ep # 0

\* if sgld_epochs: if n_cycles: run_csgld(...) else: run_sgld(...)
SgldVariant(sep, nc) ==
    IF sep # 0 THEN (IF nc # 0 THEN "run_csgld" ELSE "run_sgld") ELSE "none"

\* the record of one BMA evaluation (test_bma / get_metrics_bma): how many
\* members ens_logits has, which sample files they come from, and the network
\* parameters before and after the loop over the samples
BmaRecord(kind, fn, order, before, fs) ==
    [kind |-> kind, fn |-> fn, count |-> Len(order),
     seen |-> {order[k] : k \in 1 .. Len(order)},
     before |-> before, after |-> LoadSamples(before, fs, order)]

NoBma == [kind |-> "none", fn |-> "none", count |-> 0, seen |-> {},
          before |-> 0, after |-> 0]

NoStep == [fn |-> "none", e |-> 0, i |-> 0, explore |-> FALSE, noise |-> FALSE,
           consulted |-> FALSE, sample |-> FALSE]

\* ---- initial state: main entered with its keyword arguments ----------------
Init ==
    /\ args \in [epochs : -1 .. MaxEpochs, sgld_epochs : -1 .. MaxSgldEpochs,
                 burn_in : 0 .. MaxBurnIn, n_samples : 1 .. MaxNSamples,
                 n_cycles : 0 .. MaxCycles]
    /\ pc = "main"
    /\ err = "none"
    /\ frame = [fn |-> "main"]
    /\ e = 0
    /\ i = 0
    /\ net = 0
    /\ steps = 0
    /\ files = <<>>
    /\ sgd_model = -1
    /\ summary = {}
    /\ log = <<>>
    /\ saves = <<>>
    /\ last_bma = NoBma
    /\ bma_at = {}
    /\ tested = 0
    /\ last_step = NoStep

\* ---- main -----------------------------------------------------------------
\* if epochs: run_sgd(..., epochs=epochs)
MainSgd ==
    /\ pc = "main"
    /\ IF RunsSgd(args.epochs)
       THEN /\ pc' = "sgd"
            /\ frame' = [fn |-> "run_sgd", epochs |-> args.epochs]
            /\ log' = Append(log, "run_sgd")
       ELSE /\ pc' = "main_sgld"
            /\ UNCHANGED <<frame, log>>
    /\ e' = 0
    /\ i' = 0
    /\ tested' = 0
    /\ UNCHANGED <<args, err, net, steps, files, sgd_model, summary, saves,
                   last_bma, bma_at, last_step>>

\* if sgld_epochs: if n_cycles: run_csgld(...) else: run_sgld(...)
MainSgld ==
    /\ pc = "main_sgld"
    /\ LET v == SgldVariant(args.sgld_epochs, args.n_cycles) IN
       IF v = "run_csgld"
       THEN /\ pc' = "csgld"
            /\ frame' = [fn |-> "run_csgld", epochs |-> args.sgld_epochs,
                         n_samples |-> args.n_samples, n_cycles |-> args.n_cycles]
            /\ log' = Append(log, "run_csgld")
       ELSE IF v = "run_sgld"
       THEN /\ pc' = "sgld"
            /\ frame' = [fn |-> "run_sgld", epochs |-> args.sgld_epochs,
                         burn_in |-> args.burn_in, n_samples |-> args.n_samples,
                         sample_int |-> SampleInt(args.sgld_epochs, args.burn_in,
                                                  args.n_samples)]
            /\ log' = Append(log, "run_sgld")
       ELSE /\ pc' = "alert"
            /\ UNCHANGED <<frame, log>>
    /\ e' = 0
    /\ i' = 0
    /\ tested' = 0
    /\ UNCHANGED <<args, err, net, steps, files, sgd_model, summary, saves,
                   last_bma, bma_at, last_step>>

\* wandb.alert(...)
MainAlert ==
    /\ pc = "alert"
    /\ pc' = "finish"
    /\ log' = Append(log, "alert")
    /\ UNCHANGED <<args, err, frame, e, i, net, steps, files, sgd_model,
                   summary, saves, last_bma, bma_at, tested, last_step>>

\* wandb.finish()
MainFinish ==
    /\ pc = "finish"
    /\ pc' = "done"
    /\ log' = Append(log, "finish")
    /\ UNCHANGED <<args, err, frame, e, i, net, steps, files, sgd_model,
                   summary, saves, last_bma, bma_at, tested, last_step>>

\* ---- run_sgd ----------------------------------------------------------------
\* one minibatch: zero_grad, forward, backward, sgd.step()
SgdMinibatch ==
    /\ pc = "sgd"
    /\ e < frame.epochs
    /\ i < NumBatches
    /\ steps' = steps + 1
    /\ net' = steps + 1
    /\ i' = i + 1
    /\ last_step' = [fn |-> "run_sgd", e |-> e, i |-> i, explore |-> FALSE,
                     noise |-> FALSE, consulted |-> FALSE, sample |-> FALSE]
    /\ UNCHANGED <<args, pc, err, frame, e, files, sgd_model, summary, log,
                   saves, last_bma, bma_at, tested>>

\* end of an epoch: scheduler step, test(), keep the best model
SgdEpochEnd ==
    /\ pc = "sgd"
    /\ e < frame.epochs
    /\ i = NumBatches
    /\ tested' = tested + 1
    /\ \E better \in BOOLEAN :
         IF better
         THEN /\ sgd_model' = net
              /\ summary' = summary \cup {"sgd/test/best_epoch", "sgd/test/best_acc"}
         ELSE UNCHANGED <<sgd_model, summary>>
    /\ e' = e + 1
    /\ i' = 0
    /\ UNCHANGED <<args, pc, err, frame, net, steps, files, log, saves,
                   last_bma, bma_at, last_step>>

\* range(epochs) exhausted: run_sgd returns to main
SgdReturn ==
    /\ pc = "sgd"
    /\ e >= frame.epochs
    /\ pc' = "main_sgld"
    /\ frame' = [fn |-> "main"]
    /\ log' = Append(log, "ret_sgd")
    /\ UNCHANGED <<args, err, e, i, net, steps, files, sgd_model, summary,
                   saves, last_bma, bma_at, tested, last_step>>

\* ---- run_sgld ---------------------------------------------------------------
\* one minibatch: zero_grad, forward, backward, sgld.step()
SgldMinibatch ==
    /\ pc = "sgld"
    /\ e < frame.epochs
    /\ i < NumBatches
    /\ steps' = steps + 1
    /\ net' = steps + 1
    /\ i' = i + 1
    /\ last_step' = [fn |-> "run_sgld", e |-> e, i |-> i, explore |-> FALSE,
                     noise |-> TRUE, consulted |-> FALSE, sample |-> FALSE]
    /\ UNCHANGED <<args, pc, err, frame, e, files, sgd_model, summary, log,
                   saves, last_bma, bma_at, tested>>

\* end of an epoch: test(), then the sampling check; on a hit the sample is
\* saved and test_bma runs over the samples directory
SgldEpochEnd ==
    /\ pc = "sgld"
    /\ e < frame.epochs
    /\ i = NumBatches
    /\ tested' = tested + 1
    /\ LET chk == SampleCheck(e, frame.burn_in, frame.sample_int) IN
       IF chk = "raise"
       THEN /\ pc' = "error"
            /\ err' = "ZeroDivisionError"
            /\ UNCHANGED <<e, i, net, files, saves, last_bma, bma_at>>
       ELSE IF chk = "save"
       THEN LET name == SgldName(e)
                fs == Write(files, name, net) IN
            /\ files' = fs
            /\ saves' = Append(saves, [name |-> name, e |-> e, i |-> i,
                                       params |-> net, noise |-> last_step.noise,
                                       explore |-> last_step.explore])
            /\ \E order \in Orders(Rglob(fs)) :
                 /\ last_bma' = BmaRecord("inloop", "run_sgld", order, net, fs)
                 /\ net' = LoadSamples(net, fs, order)
            /\ bma_at' = bma_at \cup {e}
            /\ e' = e + 1
            /\ i' = 0
            /\ UNCHANGED <<pc, err>>
       ELSE /\ e' = e + 1
            /\ i' = 0
            /\ UNCHANGED <<pc, err, net, files, saves, last_bma, bma_at>>
    /\ UNCHANGED <<args, frame, steps, sgd_model, summary, log, last_step>>

\* after the loop: the final test_bma, the summary entry, return to main
SgldFinal ==
    /\ pc = "sgld"
    /\ e >= frame.epochs
    /\ \E order \in Orders(Rglob(files)) :
         IF StackOutcome(order) = "ok"
         THEN /\ last_bma' = BmaRecord("final", "run_sgld", order, net, files)
              /\ net' = LoadSamples(net, files, order)
              /\ summary' = summary \cup {"sgld/test/bma_acc"}
              /\ pc' = "alert"
              /\ frame' = [fn |-> "main"]
              /\ log' = Append(log, "ret_sgld")
              /\ UNCHANGED err
         ELSE /\ pc' = "error"
              /\ err' = StackOutcome(order)
              /\ UNCHANGED <<last_bma, net, summary, frame, log>>
    /\ UNCHANGED <<args, e, i, steps, files, sgd_model, saves, bma_at, tested,
                   last_step>>

\* ---- run_csgld --------------------------------------------------------------
\* one minibatch: the scheduler decides the phase; a sampling-phase step may
\* save a sample and run get_metrics_bma; then sgld_scheduler.step()
CsgldMinibatch ==
    /\ pc = "csgld"
    /\ e < frame.epochs
    /\ i < NumBatches
    /\ steps' = steps + 1
    /\ \E explore \in BOOLEAN :
         IF explore
         THEN /\ last_step' = [fn |-> "run_csgld", e |-> e, i |-> i,
                               explore |-> TRUE, noise |-> StepNoise(TRUE),
                               consulted |-> FALSE, sample |-> FALSE]
              /\ net' = steps + 1
              /\ UNCHANGED <<files, saves, last_bma>>
         ELSE \E sample \in {FALSE} \cup {b \in {TRUE} : Len(saves) < MaxCsgldSaves} :
              /\ last_step' = [fn |-> "run_csgld", e |-> e, i |-> i,
                               explore |-> FALSE, noise |-> StepNoise(FALSE),
                               consulted |-> TRUE, sample |-> sample]
              /\ IF sample
                 THEN LET name == CsgldName(e, i)
                          fs == Write(files, name, steps + 1) IN
                      /\ files' = fs
                      /\ saves' = Append(saves, [name |-> name, e |-> e, i |-> i,
                                                 params |-> steps + 1,
                                                 noise |-> StepNoise(FALSE),
                                                 explore |-> FALSE])
                      /\ \E order \in Orders(Rglob(fs)) :
                           /\ last_bma' = BmaRecord("inloop", "run_csgld", order,
                                                    steps + 1, fs)
                           /\ net' = LoadSamples(steps + 1, fs, order)
                 ELSE /\ net' = steps + 1
                      /\ UNCHANGED <<files, saves, last_bma>>
    /\ i' = i + 1
    /\ UNCHANGED <<args, pc, err, frame, e, sgd_model, summary, log, bma_at,
                   tested>>

\* end of an epoch: get_metrics_training on the test set
CsgldEpochEnd ==
    /\ pc = "csgld"
    /\ e < frame.epochs
    /\ i = NumBatches
    /\ tested' = tested + 1
    /\ e' = e + 1
    /\ i' = 0
    /\ UNCHANGED <<args, pc, err, frame, net, steps, files, sgd_model, summary,
                   log, saves, last_bma, bma_at, last_step>>

\* after the loop: get_metrics_bma on the test set, then on the training set
CsgldFinal ==
    /\ pc = "csgld"
    /\ e >= frame.epochs
    /\ \E order \in Orders(Rglob(files)) :
         IF StackOutcome(order) = "ok"
         THEN \E order2 \in Orders(Rglob(files)) :
              /\ last_bma' = BmaRecord("final", "run_csgld", order2,
                                       LoadSamples(net, files, order), files)
              /\ net' = LoadSamples(LoadSamples(net, files, order), files, order2)
              /\ pc' = "alert"
              /\ frame' = [fn |-> "main"]
              /\ log' = Append(log, "ret_csgld")
              /\ UNCHANGED err
         ELSE /\ pc' = "error"
              /\ err' = StackOutcome(order)
              /\ UNCHANGED <<last_bma, net, frame, log>>
    /\ UNCHANGED <<args, e, i, steps, files, sgd_model, summary, saves, bma_at,
                   tested, last_step>>

Next == MainSgd \/ MainSgld \/ MainAlert \/ MainFinish
        \/ SgdMinibatch \/ SgdEpochEnd \/ SgdReturn
        \/ SgldMinibatch \/ SgldEpochEnd \/ SgldFinal
        \/ CsgldMinibatch \/ CsgldEpochEnd \/ CsgldFinal

Spec == Init /\ [][Next]_vars

\* ---- properties ---------------------------------------------------------------
InPhase(fn) == log # <<>> /\ log[Len(log)] = fn

Called(fn) == \E k \in 1 .. Len(log) : log[k] = fn

SavedAt(ep) == \E k \in 1 .. Len(saves) : saves[k].e = ep

SavedOn(ep, mb) == \E k \in 1 .. Len(saves) : saves[k].e = ep /\ saves[k].i = mb

IsPrefix(s, t) == Len(s) <= Len(t) /\ \A k \in 1 .. Len(s) : s[k] = t[k]

Max0(n) == IF n > 0 THEN n ELSE 0

\* the sampling interval as the arguments of main determine it
ArgInt == (args.sgld_epochs - args.burn_in) \div args.n_samples

\* C1: in run_sgld with a positive sampling interval, a sample is saved at the
\* end of epoch x exactly when x + 1 > burn_in and x + 1 - burn_in is a multiple
\* of the interval; the in-loop BMA runs at exactly those epochs, so neither
\* happens while x + 1 <= burn_in; the epoch in progress has no sample yet.
C1_BurnInGating ==
    (Called("run_sgld") /\ ArgInt > 0) =>
        /\ \A x \in 0 .. (e - 1) :
              LET due == /\ x + 1 > args.burn_in
                         /\ \E m \in 1 .. (MaxSgldEpochs + 1) :
                              x + 1 - args.burn_in = m * ArgInt
              IN /\ SavedAt(x) <=> due
                 /\ (x \in bma_at) <=> due
                 /\ (x + 1 <= args.burn_in) => (~SavedAt(x) /\ x \notin bma_at)
        /\ \A k \in 1 .. Len(saves) : saves[k].e < e
        /\ \A x \in bma_at : x < e

C1_Witness ==
    /\ Called("ret_sgld")
    /\ args.burn_in >= 1
    /\ ArgInt >= 2
    /\ Len(saves) >= 1
    /\ ~SavedAt(args.burn_in)

\* C2: in run_csgld an exploration-phase minibatch steps without noise, does not
\* consult should_sample() and saves nothing; a sampling-phase minibatch steps
\* with noise and saves a sample exactly when should_sample() is true; every
\* saved sample comes from a noisy sampling-phase step.
C2_CyclicalPhases ==
    /\ last_step.fn = "run_csgld" =>
          /\ last_step.explore =>
                /\ ~last_step.noise
                /\ ~last_step.consulted
                /\ ~SavedOn(last_step.e, last_step.i)
          /\ ~last_step.explore =>
                /\ last_step.noise
                /\ last_step.consulted
                /\ SavedOn(last_step.e, last_step.i) <=> last_step.sample
    /\ Called("run_csgld") =>
          \A k \in 1 .. Len(saves) : saves[k].noise /\ ~saves[k].explore

C2_Witness ==
    /\ last_step.fn = "run_csgld"
    /\ last_step.explore
    /\ Len(saves) >= 2

\* C3: every save writes a file name no earlier save used, so the samples
\* directory holds as many files as there were saves; the BMA evaluation that
\* follows the k-th save enumerates exactly the k samples saved so far, the new
\* one included; the final BMA evaluation enumerates all samples of the run.
C3_SamplePersistence ==
    /\ \A j, k \in 1 .. Len(saves) : j # k => saves[j].name # saves[k].name
    /\ Cardinality(DOMAIN files) = Len(saves)
    /\ DOMAIN files = {saves[k].name : k \in 1 .. Len(saves)}
    /\ last_bma.kind \in {"inloop", "final"} =>
          /\ last_bma.count = Len(saves)
          /\ last_bma.seen = {saves[k].name : k \in 1 .. Len(saves)}
    /\ last_bma.kind = "inloop" =>
          saves[Len(saves)].name \in last_bma.seen

C3_Witness ==
    /\ last_bma.kind = "final"
    /\ last_bma.fn = "run_csgld"
    /\ Len(saves) >= 2
    /\ \E j, k \in 1 .. Len(saves) : saves[j].e # saves[k].e /\ saves[j].i = saves[k].i

\* the calls main makes, in order, as its arguments determine them
C4Expected ==
    (IF args.epochs # 0 THEN <<"run_sgd", "ret_sgd">> ELSE <<>>)
    \o (IF args.sgld_epochs # 0
        THEN (IF args.n_cycles # 0 THEN <<"run_csgld", "ret_csgld">>
                                   ELSE <<"run_sgld", "ret_sgld">>)
        ELSE <<>>)
    \o <<"alert", "finish">>

C4Inv ==
    /\ IsPrefix(log, C4Expected)
    /\ pc = "done" => log = C4Expected
    /\ pc = "sgd" <=> InPhase("run_sgd")
    /\ pc = "sgld" => InPhase("run_sgld")
    /\ pc = "csgld" => InPhase("run_csgld")
    /\ InPhase("run_sgld") =>
          /\ frame.burn_in = args.burn_in
          /\ frame.epochs = args.sgld_epochs
    /\ InPhase("run_csgld") =>
          /\ "burn_in" \notin DOMAIN frame
          /\ frame.epochs = args.sgld_epochs
    /\ InPhase("run_sgd") =>
          /\ "burn_in" \notin DOMAIN frame
          /\ frame.epochs = args.epochs

C4Step ==
    (pc \notin {"sgld", "csgld"} /\ pc' \in {"sgld", "csgld"}) =>
        /\ net' = net
        /\ args.epochs # 0 => Called("ret_sgd")

\* C4: run_sgd runs iff epochs is non-zero and returns before an SGLD phase
\* starts; an SGLD phase runs iff sgld_epochs is non-zero, run_csgld when
\* n_cycles is non-zero and run_sgld otherwise; the SGLD phase starts from the
\* network the SGD phase left; burn_in reaches run_sgld only; alert and then
\* finish come after the phases.
C4_PhaseDispatch == []C4Inv /\ [][C4Step]_vars

C4_Witness ==
    /\ pc = "done"
    /\ args.epochs = -1
    /\ Called("ret_csgld")

\* C5: run_sgld with epochs - burn_in >= n_samples >= 1 saves exactly n_samples
\* samples over the whole run.
C5_SampleCount ==
    (Called("ret_sgld") /\ args.sgld_epochs - args.burn_in >= args.n_samples) =>
        Len(saves) = args.n_samples

\* C6: run_sgld with 0 < epochs - burn_in < n_samples has interval 0 and aborts
\* with a division by zero at the sampling check of epoch burn_in, after that
\* epoch's training and test evaluation, with no sample saved and no BMA
\* evaluation; no earlier epoch raises.
C6_TooFewEpochs ==
    (Called("run_sgld") /\ 0 < args.sgld_epochs - args.burn_in
                        /\ args.sgld_epochs - args.burn_in < args.n_samples) =>
        /\ frame.fn = "run_sgld"
        /\ frame.sample_int = 0
        /\ pc \in {"sgld", "error"}
        /\ e <= args.burn_in
        /\ saves = <<>> /\ files = <<>>
        /\ bma_at = {} /\ last_bma.kind = "none"
        /\ pc = "error" =>
              /\ err = "ZeroDivisionError"
              /\ e = args.burn_in
              /\ tested = args.burn_in + 1
              /\ last_step = [fn |-> "run_sgld", e |-> args.burn_in,
                               i |-> NumBatches - 1, explore |-> FALSE,
                               noise |-> TRUE, consulted |-> FALSE,
                               sample |-> FALSE]

C6_Witness ==
    /\ pc = "error"
    /\ err = "ZeroDivisionError"
    /\ args.burn_in >= 1
    /\ args.sgld_epochs - args.burn_in < args.n_samples

\* C7: a sampling run that saved nothing (run_sgld with burn_in >= epochs,
\* run_csgld whose scheduler never asked for a sample) completes all its epochs
\* without error, then fails in the final BMA evaluation on the empty ensemble
\* and records no summary BMA accuracy.
C7_EmptyEnsemble ==
    /\ (Called("run_sgld") /\ args.burn_in >= args.sgld_epochs) =>
          /\ pc \in {"sgld", "error"}
          /\ saves = <<>>
          /\ "sgld/test/bma_acc" \notin summary
          /\ pc = "error" =>
                /\ err = "RuntimeError"
                /\ e = Max0(args.sgld_epochs)
                /\ tested = Max0(args.sgld_epochs)
    /\ (Called("run_csgld") /\ saves = <<>>) =>
          /\ pc \in {"csgld", "error"}
          /\ pc = "error" =>
                /\ err = "RuntimeError"
                /\ e = Max0(args.sgld_epochs)
                /\ tested = Max0(args.sgld_epochs)
    /\ (pc = "error" /\ err = "RuntimeError") => (saves = <<>> /\ files = <<>>)
    /\ "sgld/test/bma_acc" \in summary => saves # <<>>

C7_Witness ==
    /\ pc = "error"
    /\ err = "RuntimeError"
    /\ InPhase("run_sgld")
    /\ args.sgld_epochs >= 2
    /\ args.burn_in = args.sgld_epochs

\* C8: after an in-loop BMA evaluation the network holds the parameters it had
\* immediately before the evaluation, those just saved as the newest sample.
C8_ChainUndisturbed ==
    last_bma.kind = "inloop" =>
        /\ last_bma.after = last_bma.before
        /\ last_bma.after = saves[Len(saves)].params
====
